---- MODULE Spec2Model ----
(***************************************************************************)
(* Model of add_copyright.py: a batch tool that walks admin/src,           *)
(* frontend/src and backend/src and prepends a header comment to every     *)
(* candidate source file that does not carry one yet.                      *)
(*                                                                         *)
(* A Python str is a sequence of one-character strings.  A character that  *)
(* is not ASCII is written "U+XXXX" (one element, one character); an       *)
(* undecodable byte of a file is written "0xFF"; a file name byte that the *)
(* file system encoding cannot decode is the surrogate "U+DCFF".           *)
(***************************************************************************)
EXTENDS Integers, Sequences, FiniteSets, TLC

\* ------------------------------------------------------------------------
\* Python str primitives
\* ------------------------------------------------------------------------

\* s[:n]
Take(s, n) == SubSeq(s, 1, IF Len(s) < n THEN Len(s) ELSE n)

\* m in s
Contains(s, m) ==
    \E i \in 1..(Len(s) - Len(m) + 1) : SubSeq(s, i, i + Len(m) - 1) = m

\* s.endswith(e)
EndsWith(s, e) ==
    Len(s) >= Len(e) /\ SubSeq(s, Len(s) - Len(e) + 1, Len(s)) = e

\* index of the last "/" of a path, 0 when there is none
LastSlash(p) ==
    LET S == {i \in 1..Len(p) : p[i] = "/"}
    IN  IF S = {} THEN 0 ELSE CHOOSE i \in S : \A j \in S : j <= i

\* os.path.basename(p)
basename(p) == SubSeq(p, LastSlash(p) + 1, Len(p))

\* os.path.dirname(p), for the relative paths of this program
dirname(p) == SubSeq(p, 1, LastSlash(p) - 1)

\* os.path.join(root, file)
join(root, file) == root \o <<"/">> \o file

\* ------------------------------------------------------------------------
\* Text-mode file I/O: open(path, 'r' / 'w', encoding='utf-8')
\* ------------------------------------------------------------------------

\* bytes that are not valid UTF-8: decoding a file that holds one raises
InvalidBytes == {"0xFF"}

\* lone surrogates (os.walk returns them for undecodable name bytes):
\* encoding a str that holds one raises UnicodeEncodeError
Surrogates == {"U+DCFF"}

Decodable(raw) == \A i \in 1..Len(raw) : raw[i] \notin InvalidBytes

Encodable(s) == \A i \in 1..Len(s) : s[i] \notin Surrogates

\* the characters that character i of raw contributes to what f.read()
\* returns in text mode with newline=None: "\r\n" and a lone "\r" both
\* read as "\n"
ReadPiece(raw, i) ==
    IF raw[i] = "\n" /\ i > 1 /\ raw[i - 1] = "\r" THEN <<>>
    ELSE IF raw[i] = "\r" THEN <<"\n">>
    ELSE <<raw[i]>>

\* f.read(): the pieces of raw[lo..hi] in order
RECURSIVE ReadRange(_, _, _)
ReadRange(raw, lo, hi) ==
    IF lo > hi THEN <<>>
    ELSE IF lo = hi THEN ReadPiece(raw, lo)
    ELSE LET mid == (lo + hi) \div 2
         IN  ReadRange(raw, lo, mid) \o ReadRange(raw, mid + 1, hi)

UniversalNewlines(raw) == ReadRange(raw, 1, Len(raw))

\* os.linesep of the platform the script runs on (POSIX)
linesep == <<"\n">>

\* f.write() in text mode with newline=None: every "\n" of s[lo..hi] is
\* written as os.linesep
RECURSIVE WriteRange(_, _, _)
WriteRange(s, lo, hi) ==
    IF lo > hi THEN <<>>
    ELSE IF lo = hi THEN (IF s[lo] = "\n" THEN linesep ELSE <<s[lo]>>)
    ELSE LET mid == (lo + hi) \div 2
         IN  WriteRange(s, lo, mid) \o WriteRange(s, mid + 1, hi)

WriteNewlines(s) == WriteRange(s, 1, Len(s))

\* ------------------------------------------------------------------------
\* Templates and configuration
\* ------------------------------------------------------------------------

\* the template text before {filename}, between the two fields, and after
\* {description}
TS_COPYRIGHT ==
    [pre  |-> <<"/", "*", "*", "\n", " ", "*", " ", "@", "f", "i", "l", "e", " ">>,
     mid  |-> <<"\n", " ", "*", " ", "@", "d", "e", "s", "c", "r", "i", "p", "t", "i",
                "o", "n", " ">>,
     post |-> <<"\n", " ", "*", " ", "@", "a", "u", "t", "h", "o", "r", " ", "T", "o",
                "m", "d", "a", "\n", " ", "*", " ", "@", "c", "o", "p", "y", "r", "i",
                "g", "h", "t", " ", "U+7248", "U+6743", "U+6240", "U+6709", " ", "(",
                "c", ")", " ", "2", "0", "2", "6", " ", "U", "I", "E", "D", "U+6280",
                "U+672F", "U+56E2", "U+961F", "\n", " ", "*", " ", "@", "w", "e", "b",
                "s", "i", "t", "e", " ", "h", "t", "t", "p", "s", ":", "/", "/", "f",
                "s", "u", "i", "e", "d", ".", "c", "o", "m", "\n", " ", "*", " ", "@",
                "l", "i", "c", "e", "n", "s", "e", " ", "M", "I", "T", "\n", " ", "*",
                " ", "@", "v", "e", "r", "s", "i", "o", "n", " ", "1", ".", "0", ".",
                "0", "\n", " ", "*", "/", "\n", "\n">>]

CSS_COPYRIGHT ==
    [pre  |-> <<"/", "*", "*", "\n", " ", "*", " ", "@", "f", "i", "l", "e", " ">>,
     mid  |-> <<"\n", " ", "*", " ", "@", "d", "e", "s", "c", "r", "i", "p", "t", "i",
                "o", "n", " ">>,
     post |-> <<"\n", " ", "*", " ", "@", "a", "u", "t", "h", "o", "r", " ", "T", "o",
                "m", "d", "a", "\n", " ", "*", " ", "@", "c", "o", "p", "y", "r", "i",
                "g", "h", "t", " ", "U+7248", "U+6743", "U+6240", "U+6709", " ", "(",
                "c", ")", " ", "2", "0", "2", "6", " ", "U", "I", "E", "D", "U+6280",
                "U+672F", "U+56E2", "U+961F", "\n", " ", "*", " ", "@", "w", "e", "b",
                "s", "i", "t", "e", " ", "h", "t", "t", "p", "s", ":", "/", "/", "f",
                "s", "u", "i", "e", "d", ".", "c", "o", "m", "\n", " ", "*", " ", "@",
                "l", "i", "c", "e", "n", "s", "e", " ", "M", "I", "T", "\n", " ", "*",
                " ", "@", "v", "e", "r", "s", "i", "o", "n", " ", "1", ".", "0", ".",
                "0", "\n", " ", "*", "/", "\n", "\n">>]

\* template.format(filename=..., description=...)
format(template, filename, description) ==
    template.pre \o filename \o template.mid \o description \o template.post

DESCRIPTIONS ==
    [admin    |-> <<"U+7BA1", "U+7406", "U+540E", "U+53F0", "U+7EC4", "U+4EF6">>,
     frontend |-> <<"U+524D", "U+7AEF", "U+7528", "U+6237", "U+754C", "U+9762",
                    "U+7EC4", "U+4EF6">>,
     backend  |-> <<"U+540E", "U+7AEF", "A", "P", "I", "U+670D", "U+52A1">>]

AT_FILE == <<"@", "f", "i", "l", "e">>
AT_COPYRIGHT == <<"@", "c", "o", "p", "y", "r", "i", "g", "h", "t">>

\* has_copyright looking for '@file' only
has_copyright_file_only(content) == Contains(Take(content, 500), AT_FILE)

\* has_copyright looking at content[:10] only
has_copyright_short_window(content) ==
    \/ Contains(Take(content, 10), AT_FILE)
    \/ Contains(Take(content, 10), AT_COPYRIGHT)

\* '@file' in content[:500] or '@copyright' in content[:500]
has_copyright(content) ==
    \/ Contains(Take(content, 500), AT_FILE)
    \/ Contains(Take(content, 500), AT_COPYRIGHT)

DOT_TSX == <<".", "t", "s", "x">>
DOT_TS == <<".", "t", "s">>
DOT_CSS == <<".", "c", "s", "s">>
DOT_JS == <<".", "j", "s">>

ADMIN_SRC == <<"a", "d", "m", "i", "n", "/", "s", "r", "c">>
FRONTEND_SRC == <<"f", "r", "o", "n", "t", "e", "n", "d", "/", "s", "r", "c">>
BACKEND_SRC == <<"b", "a", "c", "k", "e", "n", "d", "/", "s", "r", "c">>

\* the blocks of main with the backend block also accepting '.css'
GroupsBackendAcceptsCss ==
    << [dir |-> ADMIN_SRC,    description |-> DESCRIPTIONS.admin,
        extensions |-> {DOT_TSX, DOT_TS, DOT_CSS}],
       [dir |-> FRONTEND_SRC, description |-> DESCRIPTIONS.frontend,
        extensions |-> {DOT_TSX, DOT_TS, DOT_CSS}],
       [dir |-> BACKEND_SRC,  description |-> DESCRIPTIONS.backend,
        extensions |-> {DOT_JS, DOT_TS, DOT_CSS}] >>

\* the blocks of main with the frontend block before the admin block
GroupsFrontendFirst ==
    << [dir |-> FRONTEND_SRC, description |-> DESCRIPTIONS.frontend,
        extensions |-> {DOT_TSX, DOT_TS, DOT_CSS}],
       [dir |-> ADMIN_SRC,    description |-> DESCRIPTIONS.admin,
        extensions |-> {DOT_TSX, DOT_TS, DOT_CSS}],
       [dir |-> BACKEND_SRC,  description |-> DESCRIPTIONS.backend,
        extensions |-> {DOT_JS, DOT_TS}] >>

\* the three blocks of main, in program order
Groups ==
    << [dir |-> ADMIN_SRC,    description |-> DESCRIPTIONS.admin,
        extensions |-> {DOT_TSX, DOT_TS, DOT_CSS}],
       [dir |-> FRONTEND_SRC, description |-> DESCRIPTIONS.frontend,
        extensions |-> {DOT_TSX, DOT_TS, DOT_CSS}],
       [dir |-> BACKEND_SRC,  description |-> DESCRIPTIONS.backend,
        extensions |-> {DOT_JS, DOT_TS}] >>

\* the exclusion list without 'dist'
ExcludedDirsWithoutDist ==
    { <<"n", "o", "d", "e", "_", "m", "o", "d", "u", "l", "e", "s">>,
      <<"b", "u", "i", "l", "d">>,
      <<".", "g", "i", "t">> }

\* the directory names process_directory removes from dirs
ExcludedDirs ==
    { <<"n", "o", "d", "e", "_", "m", "o", "d", "u", "l", "e", "s">>,
      <<"d", "i", "s", "t">>,
      <<"b", "u", "i", "l", "d">>,
      <<".", "g", "i", "t">> }

\* any(file.endswith(ext) for ext in extensions)
IsCandidate(file, extensions) == \E ext \in extensions : EndsWith(file, ext)

\* ------------------------------------------------------------------------
\* The file trees the runs start from
\* ------------------------------------------------------------------------

COMPONENTS == <<"c", "o", "m", "p", "o", "n", "e", "n", "t", "s">>
NODE_MODULES == <<"n", "o", "d", "e", "_", "m", "o", "d", "u", "l", "e", "s">>
LIB == <<"l", "i", "b">>
DIST == <<"d", "i", "s", "t">>
DOT_GIT == <<".", "g", "i", "t">>
BUILD == <<"b", "u", "i", "l", "d">>

A_TS == <<"a", ".", "t", "s">>
B_JS == <<"b", ".", "j", "s">>
C_CSS == <<"c", ".", "c", "s", "s">>
D_TS == <<"d", ".", "t", "s">>
E_TSX == <<"e", ".", "t", "s", "x">>
F_TSX == <<"f", "U+DCFF", ".", "t", "s", "x">>
K_TS == <<"k", ".", "t", "s">>
G_TS == <<"g", ".", "t", "s">>
H_JS == <<"h", ".", "j", "s">>
I_CSS == <<"i", ".", "c", "s", "s">>
J_TS == <<"j", ".", "t", "s">>

Roots == {ADMIN_SRC, FRONTEND_SRC, BACKEND_SRC}

ADMIN_COMPONENTS == join(ADMIN_SRC, COMPONENTS)
ADMIN_NODE_MODULES == join(ADMIN_SRC, NODE_MODULES)

\* every directory of the trees
AllDirs ==
    Roots \cup
    { ADMIN_COMPONENTS, join(ADMIN_COMPONENTS, DIST),
      ADMIN_NODE_MODULES, join(ADMIN_NODE_MODULES, LIB),
      join(FRONTEND_SRC, DOT_GIT), join(BACKEND_SRC, BUILD) }

P_a == join(ADMIN_SRC, A_TS)
P_b == join(ADMIN_SRC, B_JS)
P_c == join(ADMIN_COMPONENTS, C_CSS)
P_d == join(join(ADMIN_NODE_MODULES, LIB), D_TS)
P_e == join(join(ADMIN_COMPONENTS, DIST), E_TSX)
P_f == join(FRONTEND_SRC, F_TSX)
P_k == join(FRONTEND_SRC, K_TS)
P_g == join(join(FRONTEND_SRC, DOT_GIT), G_TS)
P_h == join(BACKEND_SRC, H_JS)
P_i == join(BACKEND_SRC, I_CSS)
P_j == join(join(BACKEND_SRC, BUILD), J_TS)

\* every file path of the trees; a file's inode number is its index here
\* unless the path is a second link to another file
AllPaths == <<P_a, P_b, P_c, P_d, P_e, P_f, P_k, P_g, P_h, P_i, P_j>>

PathSet == {AllPaths[n] : n \in 1..Len(AllPaths)}

Inode(p) == CHOOSE n \in 1..Len(AllPaths) : AllPaths[n] = p

\* the paths the walk is meant to hand to add_copyright_to_file
CandidatePaths == {P_a, P_c, P_f, P_k, P_h}

\* pairs <<p, q>>: q is a second hard link to the file of p
Aliases == { <<P_f, P_k>>, <<P_a, P_h>>, <<P_a, P_d>>, <<P_h, P_b>> }

Pad(n) == [i \in 1..n |-> "x"]

PLAIN ==
    <<"e", "x", "p", "o", "r", "t", " ", "c", "o", "n", "s", "t", " ", "x", " ", "=", " ", "1",
      ";">>
MARKED ==
    <<"/", "*", " ", "@", "c", "o", "p", "y", "r", "i", "g", "h", "t", " ", "A", "C", "M", "E",
      " ", "*", "/", "\n", "l", "e", "t", " ", "y", ";">>
CRLF == <<"a", "\r", "\n", "b", "\r", "c", "\n">>
BINARY == <<"a", "0xFF", "b">>

\* what a file is: its bytes and its permission bits ("rw", "r" read-only,
\* "-" no access)
FileKinds ==
    { [content |-> PLAIN,  perm |-> "rw"], [content |-> MARKED, perm |-> "rw"],
      [content |-> CRLF,   perm |-> "rw"], [content |-> BINARY, perm |-> "rw"],
      [content |-> PLAIN,  perm |-> "r"],  [content |-> PLAIN,  perm |-> "-"],
      [content |-> MARKED, perm |-> "-"] }

\* contents around the edge of the 500-character window
WindowContents ==
    { <<>>, PLAIN, MARKED, CRLF, BINARY,
      AT_FILE, Pad(495) \o AT_FILE, Pad(496) \o AT_FILE, Pad(500) \o AT_FILE,
      Pad(190) \o AT_COPYRIGHT, Pad(490) \o AT_COPYRIGHT, Pad(491) \o AT_COPYRIGHT,
      <<"\r", "\n">> \o Pad(494) \o AT_FILE,
      Pad(498) \o <<"@", "f", "i", "l">> }

\* the number of times main is run on the tree
MaxRuns == 2

\* ------------------------------------------------------------------------
\* State
\* ------------------------------------------------------------------------

VARIABLES
    dirs,         \* the directories that exist
    unlistable,   \* the directories whose os.scandir raises OSError
    stdout_errors,\* sys.stdout.errors: "strict" (stdout is UTF-8 in a UTF-8
                  \* locale) or "surrogateescape" (C/POSIX locale)
    links,        \* file path -> inode
    perm,         \* inode -> permission bits
    data,         \* inode -> the file's content on disk
    run,          \* which run of main this is
    pc,           \* "main": between the blocks of main; "walk": inside
                  \* process_directory; "done": main has returned;
                  \* "crashed": an uncaught exception has ended the run
    g,            \* main: index of the next block (4: the final print)
    call,         \* process_directory: its arguments
    stack,        \* os.walk: the directories still to be listed
    root,         \* process_directory: the directory os.walk yielded last
    files,        \* process_directory: files of root not yet iterated
    count,        \* process_directory: count
    total_count,  \* main: total_count
    printed,      \* the totals printed by the runs so far
    calls,        \* this run: the process_directory calls and their results
    log,          \* this run: the add_copyright_to_file calls and results
    opens,        \* this run: every open(path, mode) that was attempted
    listed,       \* this run: every directory os.walk tried to list
    mutations,    \* this run: inode -> number of times its content changed
    runStart,     \* data when this run began
    walkStart     \* data when this process_directory call began

fsvars == <<dirs, unlistable, stdout_errors, links, perm>>
vars == <<dirs, unlistable, stdout_errors, links, perm, data, run, pc, g, call, stack, root, files,
          count, total_count, printed, calls, log, opens, listed, mutations,
          runStart, walkStart>>

NoCall == [directory |-> <<>>, description |-> <<>>, extensions |-> {}]

Inodes == {links[p] : p \in DOMAIN links}

InitControl ==
    /\ stdout_errors \in {"strict", "surrogateescape"}
    /\ run = 1 /\ pc = "main" /\ g = 1
    /\ call = NoCall /\ stack = <<>> /\ root = <<>> /\ files = {}
    /\ count = 0 /\ total_count = 0
    /\ printed = <<>> /\ calls = <<>> /\ log = <<>> /\ opens = {} /\ listed = {}
    /\ mutations = [i \in Inodes |-> 0]
    /\ runStart = data /\ walkStart = data

\* every path and directory exists; at most two candidate files are not
\* plain read-write files, and the files that are no candidates either all
\* carry a marker or all carry none
InitFiles ==
    /\ dirs = AllDirs /\ unlistable = {}
    /\ links = [p \in PathSet |-> Inode(p)]
    /\ \E p \in CandidatePaths, q \in CandidatePaths, kp \in FileKinds, kq \in FileKinds,
          other \in {PLAIN, MARKED} :
         /\ Inode(p) <= Inode(q)
         /\ p = q => kp = kq
         /\ perm = [i \in Inodes |->
                      IF i = Inode(p) THEN kp.perm
                      ELSE IF i = Inode(q) THEN kq.perm ELSE "rw"]
         /\ data = [i \in Inodes |->
                      IF i = Inode(p) THEN kp.content
                      ELSE IF i = Inode(q) THEN kq.content
                      ELSE IF AllPaths[i] \in CandidatePaths THEN PLAIN ELSE other]
    /\ InitControl

\* two paths are links to one file
InitLinks ==
    /\ dirs = AllDirs /\ unlistable = {}
    /\ \E a \in Aliases, k \in FileKinds :
         /\ links = [p \in PathSet |-> IF p = a[2] THEN Inode(a[1]) ELSE Inode(p)]
         /\ perm = [i \in Inodes |-> IF i = Inode(a[1]) THEN k.perm ELSE "rw"]
         /\ data = [i \in Inodes |-> IF i = Inode(a[1]) THEN k.content ELSE PLAIN]
    /\ InitControl

\* some of the three roots are missing, some directories cannot be listed
InitTree ==
    /\ \E missing \in SUBSET Roots :
         dirs = {d \in AllDirs : \A r \in missing : Take(d, Len(r)) # r}
    /\ unlistable \in SUBSET {ADMIN_SRC, ADMIN_COMPONENTS, BACKEND_SRC}
    /\ links = [p \in {q \in PathSet : dirname(q) \in dirs} |-> Inode(p)]
    /\ perm = [i \in Inodes |-> "rw"]
    /\ data = [i \in Inodes |-> PLAIN]
    /\ InitControl

\* one file, with a content around the edge of the window
InitWindow ==
    /\ dirs = AllDirs /\ unlistable = {}
    /\ \E p \in {P_a, P_c, P_f}, c \in WindowContents, m \in {"rw", "r", "-"} :
         /\ links = [q \in {p, P_b} |-> Inode(q)]
         /\ perm = [i \in Inodes |-> IF i = Inode(p) THEN m ELSE "rw"]
         /\ data = [i \in Inodes |-> IF i = Inode(p) THEN c ELSE PLAIN]
    /\ InitControl

Init == InitFiles \/ InitLinks \/ InitTree \/ InitWindow

\* ------------------------------------------------------------------------
\* add_copyright_to_file
\* ------------------------------------------------------------------------

CanRead(i) == perm[i] \in {"rw", "r"}
CanWrite(i) == perm[i] = "rw"

\* print(...) of a line that holds the str s succeeds: sys.stdout is UTF-8
\* (every other character the script prints is encodable), so the print
\* raises UnicodeEncodeError only for a surrogate under errors="strict"
CanPrint(s) == stdout_errors = "surrogateescape" \/ Encodable(s)

\* except Exception as e: print the failure, return False.  d is what the
\* files hold and o the open() calls made when the exception err was raised
\* inside the try.  The print stands in the except clause itself: when it
\* raises, the exception leaves add_copyright_to_file (raised: nothing is
\* returned, ret has no meaning).
handle_exception(filepath, d, o, err) ==
    IF CanPrint(filepath)
    THEN [raised |-> FALSE, ret |-> FALSE, outcome |-> "failed", error |-> err,
          data |-> d, opens |-> o]
    ELSE [raised |-> TRUE, ret |-> FALSE, outcome |-> "raised", error |-> err,
          data |-> d, opens |-> o]

\* the result of add_copyright_to_file(filepath, description): whether an
\* exception left the call, the value returned, the line printed, the
\* exception raised inside the try ("read": open(.., 'r') or f.read();
\* "write": open(.., 'w') or f.write(); "print": a print), the files'
\* contents afterwards and the open() calls made
add_copyright_to_file(filepath, description) ==
    LET i == links[filepath]
        rd == [path |-> filepath, mode |-> "r"]
        wr == [path |-> filepath, mode |-> "w"]
    IN
    IF ~CanRead(i) \/ ~Decodable(data[i])
    THEN handle_exception(filepath, data, {rd}, "read")
    ELSE
      LET content == UniversalNewlines(data[i]) IN
      IF has_copyright(content)
      THEN IF CanPrint(filepath)
           THEN [raised |-> FALSE, ret |-> FALSE, outcome |-> "skipped",
                 error |-> "none", data |-> data, opens |-> {rd}]
           ELSE handle_exception(filepath, data, {rd}, "print")
      ELSE
        LET filename == basename(filepath)
            copyright == IF EndsWith(filepath, DOT_CSS)
                         THEN format(CSS_COPYRIGHT, filename, description)
                         ELSE format(TS_COPYRIGHT, filename, description)
            new_content == copyright \o content
            written == [data EXCEPT ![i] = WriteNewlines(new_content)]
        IN
        IF ~CanWrite(i)
        THEN handle_exception(filepath, data, {rd, wr}, "write")
        ELSE IF ~Encodable(new_content)
        \* open(filepath, 'w') has truncated the file when f.write raises
        THEN handle_exception(filepath, [data EXCEPT ![i] = <<>>], {rd, wr}, "write")
        ELSE IF CanPrint(filepath)
        THEN [raised |-> FALSE, ret |-> TRUE, outcome |-> "added",
              error |-> "none", data |-> written, opens |-> {rd, wr}]
        ELSE handle_exception(filepath, written, {rd, wr}, "print")

\* ------------------------------------------------------------------------
\* process_directory and main
\* ------------------------------------------------------------------------

\* os.walk with onerror = raise: the OSError of a failed listing leaves
\* os.walk instead of being dropped
walk_scandir_raising(top) ==
    IF top \in unlistable
    THEN [error |-> TRUE, raised |-> TRUE, files |-> {}, dirs |-> {}]
    ELSE [error |-> FALSE, raised |-> FALSE,
          files |-> {basename(p) : p \in {q \in DOMAIN links : dirname(q) = top}},
          dirs |-> {basename(d) : d \in {e \in dirs : dirname(e) = top}}]

\* one step of os.walk(directory): os.scandir(top) and what os.walk makes
\* of it.  When the listing raises OSError, os.walk calls onerror if there
\* is one; process_directory passes none, so the error is dropped: nothing
\* is raised to the caller and nothing is yielded for top.  Otherwise the
\* names of the files and of the subdirectories of top are yielded.
walk_scandir(top) ==
    IF top \in unlistable
    THEN [error |-> TRUE, raised |-> FALSE, files |-> {}, dirs |-> {}]
    ELSE [error |-> FALSE, raised |-> FALSE,
          files |-> {basename(p) : p \in {q \in DOMAIN links : dirname(q) = top}},
          dirs |-> {basename(d) : d \in {e \in dirs : dirname(e) = top}}]

\* dirs[:] = [d for d in dirs if d not in [...]]
KeptDirs(names) == {d \in names : d \notin ExcludedDirs}

\* the orders in which a directory's entries can come back from the OS
Orders(S) ==
    {s \in [1..Cardinality(S) -> S] : \A m, n \in 1..Cardinality(S) : s[m] = s[n] => m = n}

\* main: if os.path.exists(dir): call process_directory, which starts
\* os.walk(directory) with count = 0
EnterGroup ==
    /\ pc = "main" /\ g <= Len(Groups)
    /\ IF Groups[g].dir \in dirs
       THEN /\ pc' = "walk"
            /\ call' = [directory |-> Groups[g].dir,
                        description |-> Groups[g].description,
                        extensions |-> Groups[g].extensions]
            /\ stack' = <<Groups[g].dir>>
            /\ count' = 0
            /\ walkStart' = data
            /\ UNCHANGED g
       ELSE /\ g' = g + 1
            /\ UNCHANGED <<pc, call, stack, count, walkStart>>
    /\ UNCHANGED <<fsvars, data, run, root, files, total_count, printed, calls, log,
                   opens, listed, mutations, runStart>>

\* os.walk takes the next directory off its stack and lists it.  A listing
\* that succeeds yields (root, dirs, files) and the loop body prunes dirs; a
\* listing that fails yields nothing, so root keeps its value, and an error
\* that os.walk raised would leave process_directory and main uncaught.
WalkDir ==
    /\ pc = "walk" /\ files = {} /\ stack # <<>>
    /\ LET top == Head(stack)
           r == walk_scandir(top) IN
         /\ listed' = listed \cup {top}
         /\ pc' = IF r.raised THEN "crashed" ELSE "walk"
         /\ root' = IF r.error THEN root ELSE top
         /\ files' = r.files
         /\ \E sub \in Orders(KeptDirs(r.dirs)) :
              stack' = [n \in 1..Len(sub) |-> join(top, sub[n])] \o Tail(stack)
    /\ UNCHANGED <<fsvars, data, run, g, call, count, total_count, printed, calls,
                   log, opens, mutations, runStart, walkStart>>

\* one iteration of "for file in files"; an exception that leaves
\* add_copyright_to_file is caught nowhere: it leaves process_directory and
\* main, and the interpreter exits with a traceback
ProcessFile ==
    /\ pc = "walk" /\ files # {}
    /\ \E file \in files :
         /\ files' = files \ {file}
         /\ IF IsCandidate(file, call.extensions)
            THEN LET filepath == join(root, file)
                     r == add_copyright_to_file(filepath, call.description)
                 IN  /\ data' = r.data
                     /\ count' = IF ~r.raised /\ r.ret THEN count + 1 ELSE count
                     /\ pc' = IF r.raised THEN "crashed" ELSE "walk"
                     /\ log' = Append(log, [path |-> filepath, ret |-> r.ret,
                                            description |-> call.description,
                                            outcome |-> r.outcome,
                                            error |-> r.error])
                     /\ opens' = opens \cup r.opens
                     /\ mutations' = [i \in DOMAIN mutations |->
                                        IF r.data[i] # data[i] THEN mutations[i] + 1
                                        ELSE mutations[i]]
            ELSE UNCHANGED <<data, count, pc, log, opens, mutations>>
    /\ UNCHANGED <<fsvars, run, g, call, stack, root, total_count, printed, calls,
                   listed, runStart, walkStart>>

\* process_directory returns count; main adds it to total_count
ReturnCount ==
    /\ pc = "walk" /\ files = {} /\ stack = <<>>
    /\ total_count' = total_count + count
    /\ calls' = Append(calls, [directory |-> call.directory,
                               description |-> call.description,
                               extensions |-> call.extensions,
                               count |-> count,
                               changed |-> {i \in DOMAIN data : data[i] # walkStart[i]}])
    /\ pc' = "main" /\ g' = g + 1
    /\ call' = NoCall
    /\ UNCHANGED <<fsvars, data, run, stack, root, files, count, printed, log, opens,
                   listed, mutations, runStart, walkStart>>

\* main prints the total and returns
PrintTotal ==
    /\ pc = "main" /\ g = Len(Groups) + 1
    /\ printed' = Append(printed, total_count)
    /\ pc' = "done"
    /\ UNCHANGED <<fsvars, data, run, g, call, stack, root, files, count, total_count,
                   calls, log, opens, listed, mutations, runStart, walkStart>>

\* the script is started again on the tree the last run left, whether that
\* run returned or died of an exception
RunAgain ==
    /\ pc \in {"done", "crashed"} /\ run < MaxRuns
    /\ run' = run + 1
    /\ pc' = "main" /\ g' = 1
    /\ call' = NoCall /\ stack' = <<>> /\ files' = {}
    /\ root' = <<>> /\ count' = 0 /\ total_count' = 0
    /\ calls' = <<>> /\ log' = <<>> /\ opens' = {} /\ listed' = {}
    /\ mutations' = [i \in DOMAIN mutations |-> 0]
    /\ runStart' = data /\ walkStart' = data
    /\ UNCHANGED <<fsvars, data, printed>>

Next == EnterGroup \/ WalkDir \/ ProcessFile \/ ReturnCount \/ PrintTotal \/ RunAgain

Spec == Init /\ [][Next]_vars

TypeOK ==
    /\ pc \in {"main", "walk", "done", "crashed"}
    /\ run \in 1..MaxRuns
    /\ g \in 1..(Len(Groups) + 1)
    /\ count \in Nat /\ total_count \in Nat

\* ------------------------------------------------------------------------
\* Vocabulary of the properties
\* ------------------------------------------------------------------------

Last(s) == s[Len(s)]

\* this step is one call of add_copyright_to_file
Processed == Len(log') = Len(log) + 1

\* one of the two markers lies wholly inside the first 500 characters of raw
MarkerInWindow(raw) ==
    \E m \in {AT_FILE, AT_COPYRIGHT} :
      \E i \in 1..500 :
        /\ i + Len(m) - 1 <= 500
        /\ i + Len(m) - 1 <= Len(raw)
        /\ \A k \in 1..Len(m) : raw[i + k - 1] = m[k]

\* the header block for a file: both templates have the same text
RenderedHeader(path, description) ==
    TS_COPYRIGHT.pre \o basename(path) \o TS_COPYRIGHT.mid \o description
      \o TS_COPYRIGHT.post

\* p lies somewhere below directory d
IsUnder(p, d) == Len(p) > Len(d) + 1 /\ SubSeq(p, 1, Len(d) + 1) = d \o <<"/">>

StatedExcluded ==
    { <<"n", "o", "d", "e", "_", "m", "o", "d", "u", "l", "e", "s">>,
      <<"d", "i", "s", "t">>, <<"b", "u", "i", "l", "d">>, <<".", "g", "i", "t">> }

\* some directory on the way from a root down to p has an excluded name
UnderExcluded(p) ==
    \E r \in Roots :
      /\ IsUnder(p, r)
      /\ \E i \in (Len(r) + 1)..Len(p), j \in (Len(r) + 1)..Len(p) :
           /\ i < j /\ p[i] = "/" /\ p[j] = "/"
           /\ SubSeq(p, i + 1, j - 1) \in StatedExcluded

\* the extensions the documentation gives for the group of a root
StatedExtensions(r) ==
    IF r = BACKEND_SRC THEN {DOT_JS, DOT_TS} ELSE {DOT_TSX, DOT_TS, DOT_CSS}

StatedDescription(r) ==
    IF r = ADMIN_SRC THEN DESCRIPTIONS.admin
    ELSE IF r = FRONTEND_SRC THEN DESCRIPTIONS.frontend
    ELSE DESCRIPTIONS.backend

RootOf(p) == CHOOSE r \in Roots : IsUnder(p, r)

HasStatedExtension(p) ==
    \E ext \in StatedExtensions(RootOf(p)) :
      /\ Len(p) >= Len(ext)
      /\ \A k \in 1..Len(ext) : p[Len(p) - Len(ext) + k] = ext[k]

\* the paths that are links to the file of p
LinksOf(p) == {q \in DOMAIN links : links[q] = links[p]}

\* a path a run has to hand to add_copyright_to_file
MustProcess(p) ==
    /\ HasStatedExtension(p)
    /\ ~UnderExcluded(p)
    /\ \A d \in unlistable : ~IsUnder(p, d)

LogPaths == {log[n].path : n \in 1..Len(log)}

\* a line that names path p can be written to stdout
PathPrintable(p) == stdout_errors # "strict" \/ \A k \in 1..Len(p) : p[k] # "U+DCFF"

RECURSIVE SumCounts(_)
SumCounts(cs) == IF cs = <<>> THEN 0 ELSE Head(cs).count + SumCounts(Tail(cs))

\* the roots that exist, in the order main consults them
ExistingRoots ==
    SelectSeq(<<ADMIN_SRC, FRONTEND_SRC, BACKEND_SRC>>, LAMBDA r : r \in dirs)

\* ------------------------------------------------------------------------
\* Properties
\* ------------------------------------------------------------------------

\* C1: a call on a file with neither marker inside its first 500 characters
\* that neither fails nor raises returns True and leaves the file holding
\* the rendered header followed by the original content, unchanged.
C1_HeaderThenOriginal ==
    [][ Processed =>
          LET e == Last(log')
              i == links[e.path]
          IN  (~MarkerInWindow(data[i]) /\ e.outcome \notin {"failed", "raised"})
                => /\ e.ret = TRUE
                   /\ data'[i] = RenderedHeader(e.path, e.description) \o data[i] ]_vars

\* C2 as stated: a call on a file with a marker inside its first 500
\* characters writes nothing, is reported as skipped and returns False.
C2_MarkedFileIsSkipped ==
    [][ Processed =>
          LET e == Last(log')
              i == links[e.path]
          IN  MarkerInWindow(data[i])
                => /\ data' = data
                   /\ [path |-> e.path, mode |-> "w"] \notin opens'
                   /\ e.outcome = "skipped"
                   /\ e.ret = FALSE ]_vars

\* C2 amended: a call on a file with a marker inside its first 500
\* characters writes nothing and is not counted; when the file can be read
\* and decoded and its path can be printed, the call is reported as skipped
\* and returns False; when the read fails it is reported as failed and
\* returns False; when the path cannot be printed the exception of the
\* print leaves the call.
C2_MarkedFileIsLeftAlone ==
    [][ Processed =>
          LET e == Last(log')
              i == links[e.path]
          IN  MarkerInWindow(data[i])
                => /\ data' = data
                   /\ [path |-> e.path, mode |-> "w"] \notin opens'
                   /\ count' = count
                   /\ IF ~PathPrintable(e.path)
                      THEN e.outcome = "raised" /\ pc' = "crashed"
                      ELSE /\ e.ret = FALSE /\ pc' = "walk"
                           /\ e.outcome = IF perm[i] # "-" /\ Decodable(data[i])
                                          THEN "skipped" ELSE "failed" ]_vars

C2_Witness ==
    /\ log # <<>>
    /\ Last(log).outcome = "skipped"
    /\ MarkerInWindow(data[links[Last(log).path]])
    /\ Len(data[links[Last(log).path]]) >= 500

\* C3: a run that follows completed runs (each has printed its total)
\* changes no file and its total is 0.
C3_SecondRunModifiesNothing ==
    (run >= 2 /\ Len(printed) >= run - 1) =>
      /\ data = runStart
      /\ total_count = 0
      /\ \A n \in 1..Len(log) : log[n].ret = FALSE
      /\ pc = "done" => printed[run] = 0

C3_Witness ==
    /\ run = 2 /\ pc = "done"
    /\ printed[1] >= 2
    /\ Len(log) >= 2

\* C4 as stated: no file located under node_modules, dist, build or .git is
\* read or written: no such path is opened, no such directory is listed, and
\* the content of such a file is what it was when the run began.
C4_ExcludedNeverTouched ==
    /\ \A o \in opens : ~UnderExcluded(o.path)
    /\ \A d \in listed : ~UnderExcluded(join(d, <<"x">>))
    /\ \A p \in DOMAIN links : UnderExcluded(p) => data[links[p]] = runStart[links[p]]

\* C4 amended: no path under node_modules, dist, build or .git is opened,
\* no such directory is listed, and a file under such a directory keeps its
\* content unless the run has processed the same file through another of
\* its links.
C4_ExcludedPathsNeverTouched ==
    /\ \A o \in opens : ~UnderExcluded(o.path)
    /\ \A d \in listed : ~UnderExcluded(join(d, <<"x">>))
    /\ \A p \in DOMAIN links :
         (UnderExcluded(p) /\ LinksOf(p) \cap LogPaths = {})
           => data[links[p]] = runStart[links[p]]

C4_Witness ==
    /\ pc = "done"
    /\ \E p \in DOMAIN links : UnderExcluded(p) /\ HasStatedExtension(p)
                                 /\ IsUnder(p, join(ADMIN_COMPONENTS, DIST))
    /\ \E n \in 1..Len(log) : log[n].outcome = "added" /\ IsUnder(log[n].path, ADMIN_COMPONENTS)

\* C5 as stated: a file whose name does not end with an extension accepted
\* for its group is never handed to add_copyright_to_file and its content
\* is never modified.
C5_WrongExtensionNeverModified ==
    \A p \in DOMAIN links :
      ~HasStatedExtension(p) =>
        /\ p \notin LogPaths
        /\ \A o \in opens : o.path # p
        /\ data[links[p]] = runStart[links[p]]

\* C5 amended: a path whose name does not end with an extension accepted
\* for its group is never handed to add_copyright_to_file nor opened, and
\* the file keeps its content unless it is also linked at a path that is
\* handed to add_copyright_to_file.
C5_WrongExtensionNeverProcessed ==
    \A p \in DOMAIN links :
      ~HasStatedExtension(p) =>
        /\ p \notin LogPaths
        /\ \A o \in opens : o.path # p
        /\ (LinksOf(p) \cap LogPaths = {}) => data[links[p]] = runStart[links[p]]

C5_Witness ==
    /\ pc = "done"
    /\ P_i \in DOMAIN links /\ P_b \in DOMAIN links
    /\ \E n \in 1..Len(log) : log[n].path = P_h /\ log[n].outcome = "added"

\* a call in which reading or writing the file fails is reported as failed,
\* returns False, leaves the count as it was and does not stop the walk
FailureNotCounted ==
    [][ (Processed /\ Last(log').error \in {"read", "write"})
          => /\ Last(log').outcome = "failed"
             /\ Last(log').ret = FALSE
             /\ count' = count
             /\ pc' = "walk" ]_vars

\* when a run is over, every file the run had to process has been handed to
\* add_copyright_to_file, whatever failed before it
FailureDoesNotStopTheRun ==
    pc \in {"done", "crashed"} =>
      \A p \in DOMAIN links : (RootOf(p) \in dirs /\ MustProcess(p)) => p \in LogPaths

\* C6: a call in which reading or writing fails returns False, is not
\* counted and does not stop the walk; when the run is over every file the
\* run had to process has been handed to add_copyright_to_file.
C6_FailureIsPerFile == FailureNotCounted /\ []FailureDoesNotStopTheRun

\* C7: the count process_directory returns is the number of files whose
\* content differs from what it was when the walk began.
C7_CountIsNumberModified ==
    \A n \in 1..Len(calls) : calls[n].count = Cardinality(calls[n].changed)

\* C8: the walks of a run are those of the existing roots in the order
\* admin/src, frontend/src, backend/src, each with its own description and
\* extensions; a missing root is never listed; the total printed is the sum
\* of the counts returned.
C8_FixedOrderAndTotal ==
    /\ Len(calls) <= Len(ExistingRoots)
    /\ \A n \in 1..Len(calls) :
         /\ calls[n].directory = ExistingRoots[n]
         /\ calls[n].description = StatedDescription(ExistingRoots[n])
         /\ calls[n].extensions = StatedExtensions(ExistingRoots[n])
    /\ pc = "walk" => call.directory = ExistingRoots[Len(calls) + 1]
    /\ \A d \in listed : \E r \in Roots : r \in dirs /\ (d = r \/ IsUnder(join(d, <<"x">>), r))
    /\ total_count = SumCounts(calls)
    /\ pc = "done" => /\ Len(calls) = Len(ExistingRoots)
                      /\ printed[run] = SumCounts(calls)

C8_Witness ==
    /\ pc = "done" /\ run = 1
    /\ FRONTEND_SRC \notin dirs
    /\ Len(calls) = 2
    /\ calls[1].count = 2 /\ calls[2].count = 1
    /\ printed = <<3>>

\* C9: within one run no file's content changes more than once.
C9_MutatedAtMostOnce ==
    \A i \in DOMAIN mutations : mutations[i] <= 1

\* C10 as stated: once the listing of a directory has failed, the run is
\* over: no total is printed.
C10_EnumerationFailureAborts ==
    (listed \cap unlistable # {}) => Len(printed) < run

\* the walk is about to list a directory whose listing fails
ListingFails ==
    /\ pc = "walk" /\ files = {} /\ stack # <<>>
    /\ Head(stack) \in unlistable

\* C10 amended: the failure to list a directory does not propagate out of
\* process_directory: the step that meets it leaves the walk running with
\* the remaining directories, yields no file and no subdirectory, and
\* changes no file, count or total; no path below such a directory is ever
\* opened or listed.
C10_EnumerationFailureIsIgnored ==
    /\ [](\A d \in unlistable :
            /\ \A o \in opens : ~IsUnder(o.path, d)
            /\ \A e \in listed : ~IsUnder(e, d))
    /\ [][ListingFails =>
            /\ pc' = "walk"
            /\ files' = {}
            /\ stack' = Tail(stack)
            /\ Head(stack) \in listed'
            /\ data' = data /\ count' = count /\ calls' = calls
            /\ total_count' = total_count /\ printed' = printed]_vars

C10_Witness ==
    /\ pc = "done"
    /\ ADMIN_COMPONENTS \in listed \cap unlistable
    /\ BACKEND_SRC \in listed \ unlistable
    /\ \E n \in 1..Len(log) : log[n].path = P_h /\ log[n].outcome = "added"
    /\ P_c \in DOMAIN links
====
